---------------------------- MODULE Spec2Model ----------------------------
(***************************************************************************)
(* A model of src/script.js (class BoggleGame): the dice grid generator    *)
(* with quality retry, the exhaustive word solver, the interactive path    *)
(* selection, the submission flow with scoring, the round timer and the    *)
(* high-score list.                                                        *)
(*                                                                         *)
(* Letters are one-character strings, words are sequences of letters, a    *)
(* cell is a pair <<r, c>> with 0-based coordinates, a grid is a function  *)
(* grid[r][c] on 0..gridSize-1.  The boards of the program (4x4 and 5x5)   *)
(* are scaled to 2x2 and 3x3, the dice pools to 4 and 5 dice, so that the  *)
(* state space is finite and small; every die keeps its 6 faces.           *)
(* SpecScenario alone runs the solver on a 4x4 board, with fixed letters.  *)
(* SpecSearch takes solveGrid one call and one return at a time, with the  *)
(* stack of the calls of recursivelyFind as a variable; the other          *)
(* specifications take a whole solveGrid() as one step.                    *)
(*                                                                         *)
(* The global commonWords comes from dictionary.js, which is no part of    *)
(* script.js: the code tests `typeof commonWords !== 'undefined'`, so the  *)
(* model carries both cases ([defined |-> FALSE] is the missing global).   *)
(* SpecSolve and SpecGen run with and without the global; the rounds of    *)
(* Spec run with dictionary.js loaded, since without it every path of      *)
(* three cells or more is a new word and the sets of found words are too   *)
(* many to enumerate.  SpecAgree plays one round on the small board with   *)
(* and without the global.  SpecScores hands the scores of many finished   *)
(* rounds to saveScore.                                                    *)
(***************************************************************************)
EXTENDS Integers, Sequences, FiniteSets, TLC

VARIABLES
    \* ---- the global dictionary and the fields of BoggleGame
    commonWords,      \* [defined, words]: the global array of dictionary.js
    gridSize,         \* this.gridSize (0 until startGame sets it)
    grid,             \* this.grid
    gameDuration,     \* this.gameDuration
    timer,            \* this.timer
    score,            \* this.score
    foundWords,       \* this.foundWords
    isGameActive,     \* this.isGameActive
    selectedCells,    \* this.selectedCells, a sequence of cells
    timerInterval,    \* this.timerInterval, an interval id (0 is null)
    intervals,        \* the ids of the intervals setInterval keeps firing
    isDragging,       \* this.isDragging
    interactionMoved, \* this.interactionMoved
    currentWordEl,    \* this.currentWordEl.textContent
    highScores,       \* this.highScores, the sequence of saved scores
    menuVisible,      \* startMenuModal has class 'visible'
    gameOverVisible,  \* gameOverModal has class 'visible'
    countdown,        \* pending startCountdown callbacks
    missedWords,      \* the missed words endGame displays
    rounds,           \* history: the number of startGame calls so far
    addedByMove,      \* history: a move of the press under way appended a
                      \* cell to a path that had a cell already
    savedScores,      \* history: the scores handed to saveScore, in order
    \* ---- the locals of generateGrid / buildGridData, and where it stands
    pc,               \* position of the operation the specification runs
    attempt,          \* i of generateGrid's loop
    bestGrid,         \* bestGrid
    maxFound,         \* maxFound
    possibleWords,    \* the result of the last solveGrid() call
    shuffledDice,     \* shuffledDice of the last buildGridData() call
    bestDice,         \* history: shuffledDice of the attempt kept in bestGrid
    attemptCounts,    \* history: possibleWords.length of every attempt so far
    \* ---- the input and result of a getScore call
    word,
    points,
    \* ---- a solveGrid call taken step by step
    root,             \* the roots the loops of solveGrid have passed: r * n + c
    visited,          \* visited of solveGrid, shared by the recursion
    found,            \* found of solveGrid, shared by the recursion
    callStack         \* the calls of recursivelyFind that marked their cell
                      \* and have not returned, the innermost last:
                      \* [r, c, nextPrefix, k], k the next neighbour to call

sharedVars == <<commonWords, gridSize, grid>>
gameVars == <<gameDuration, timer, score, foundWords, isGameActive,
              selectedCells, timerInterval, isDragging, interactionMoved,
              currentWordEl, highScores, menuVisible,
              gameOverVisible, countdown, missedWords, intervals, rounds,
              addedByMove, savedScores>>
genVars == <<attempt, bestGrid, maxFound, possibleWords, shuffledDice,
             bestDice, attemptCounts>>
scoreVars == <<word, points>>
searchVars == <<root, visited, found, callStack>>
vars == <<sharedVars, gameVars, genVars, scoreVars, searchVars, pc>>

-----------------------------------------------------------------------------
(* Bounds of the model *)

\* longest path the selection may grow to (the code's only limit is the board)
MaxPath == 4
\* most words a round may collect
MaxFound == 2
\* most rounds a run may start
MaxRounds == 2
\* the seconds of a round: this.gameDuration = 45 in startGame, scaled down
GameDuration == 2
\* the attempts of generateGrid: MAX_ATTEMPTS = 50, scaled down
MAX_ATTEMPTS == 3
\* the words a good grid needs: MIN_WORDS = 15, scaled down
MIN_WORDS == 2
\* the longest word getScore is called with
MaxWordLen == 9
\* most rounds whose score a run of SpecScores hands to saveScore
MaxSaves == 12
\* the highest score of a finished round in SpecScores
MaxSavedScore == 2
\* the shuffles buildGridData may draw: the rotations by 0..MaxRot
MaxRot == 0
\* the face rolls buildGridData may draw: die j shows face (k + s * j) % 6
\* for a first face k and a stride s in 0..MaxStride
MaxStride == 0

-----------------------------------------------------------------------------
(* Constants of the program *)

\* this.gameDuration = 120 in the constructor
ConstructorDuration == 120
\* the faces of a die: Math.floor(Math.random() * 6)
Faces == 6
\* this.highScores.slice(0, 10)
TopScores == 10
\* let count = 3 in startCountdown: three numbers, then the start message
CountdownFrom == 3

-----------------------------------------------------------------------------
(* Sequences, letters and words *)

Range(s) == {s[i] : i \in 1..Len(s)}

Abs(x) == IF x < 0 THEN -x ELSE x

UpperCaseLetters == {"A", "C", "D", "E", "G", "M", "N", "O", "R", "S", "T"}
LowerCaseLetters == {"m"}
Letters == UpperCaseLetters \cup LowerCaseLetters

\* String.prototype.toLocaleUpperCase('tr-TR') on one letter
UpperChar(ch) == IF ch = "m" THEN "M" ELSE ch

\* toLocaleUpperCase('tr-TR') on a word
ToLocaleUpperCase(w) == [i \in 1..Len(w) |-> UpperChar(w[i])]

\* String.prototype.startsWith
StartsWith(w, prefix) ==
    /\ Len(prefix) <= Len(w)
    /\ SubSeq(w, 1, Len(prefix)) = prefix

\* mutant of Includes: a prefix match taken for membership
IncludesAsPrefix(cw, w) == \E x \in cw.words : StartsWith(x, w)

\* commonWords.includes(w), given that commonWords is defined
Includes(cw, w) == w \in cw.words

Undefined == [defined |-> FALSE, words |-> {}]
Dictionary(ws) == [defined |-> TRUE, words |-> ws]

-----------------------------------------------------------------------------
(* The board *)

Coords(n) == 0..(n - 1)
Cells(n) == Coords(n) \X Coords(n)

\* The word spelled by a sequence of cells: the map/join of updateCurrentWord
WordOf(g, cells) == [i \in 1..Len(cells) |-> g[cells[i][1]][cells[i][2]]]

-----------------------------------------------------------------------------
(* solveGrid / recursivelyFind *)

\* mutant of NeighborOffsets: the four orthogonal neighbours only
NeighborOffsetsOrthogonal ==
    << <<-1, 0>>, <<0, -1>>, <<0, 1>>, <<1, 0>> >>

\* mutant of NeighborOffsets: the two neighbours of the same row only
NeighborOffsetsSameRow ==
    << <<0, -1>>, <<0, 1>> >>

\* The (dr, dc) pairs in the order the nested loops of recursivelyFind
\* produce them, the pair (0, 0) skipped
NeighborOffsets ==
    << <<-1, -1>>, <<-1, 0>>, <<-1, 1>>,
       << 0, -1>>,            << 0, 1>>,
       << 1, -1>>, << 1, 0>>, << 1, 1>> >>

\* commonWords.some(w => w.startsWith(nextPrefix)), false without a dictionary
Potential(cw, nextPrefix) ==
    /\ cw.defined
    /\ \E w \in cw.words : StartsWith(w, nextPrefix)

RECURSIVE RecursivelyFind(_, _, _, _, _, _, _)
RECURSIVE NeighborLoop(_, _, _, _, _, _, _, _)

\* The loop over the 8 neighbours, from the k-th offset on; st is the pair of
\* the objects the recursion shares, [visited, found].  Each call returns
\* before the next one starts: next is the value it leaves.
NeighborLoop(g, n, cw, r, c, nextPrefix, st, k) ==
    IF k > Len(NeighborOffsets) THEN st
    ELSE CHOOSE out \in
             { NeighborLoop(g, n, cw, r, c, nextPrefix, next, k + 1) :
                 next \in { RecursivelyFind(g, n, cw,
                                            r + NeighborOffsets[k][1],
                                            c + NeighborOffsets[k][2],
                                            nextPrefix, st) } } : TRUE

\* mutant of RecursivelyFind: the cell stays marked when the call returns
RecursivelyFindNoUnmark(g, n, cw, r, c, currentPrefix, st) ==
    IF r < 0 \/ r >= n \/ c < 0 \/ c >= n THEN st
    ELSE IF st.visited[r][c] THEN st
    ELSE LET nextPrefix == Append(currentPrefix, g[r][c])
         IN  IF ~Potential(cw, nextPrefix) THEN st
             ELSE LET marked == [st EXCEPT !.visited[r][c] = TRUE]
                      added == IF Len(nextPrefix) >= 3 /\ Includes(cw, nextPrefix)
                               THEN [marked EXCEPT !.found = @ \cup {nextPrefix}]
                               ELSE marked
                  IN  NeighborLoop(g, n, cw, r, c, nextPrefix, added, 1)

RecursivelyFind(g, n, cw, r, c, currentPrefix, st) ==
    IF r < 0 \/ r >= n \/ c < 0 \/ c >= n THEN st
    ELSE IF st.visited[r][c] THEN st
    ELSE LET nextPrefix == Append(currentPrefix, g[r][c])
         IN  IF ~Potential(cw, nextPrefix) THEN st
             ELSE LET marked == [st EXCEPT !.visited[r][c] = TRUE]
                      added == IF Len(nextPrefix) >= 3 /\ Includes(cw, nextPrefix)
                               THEN [marked EXCEPT !.found = @ \cup {nextPrefix}]
                               ELSE marked
                      after == NeighborLoop(g, n, cw, r, c, nextPrefix, added, 1)
                  IN  [after EXCEPT !.visited[r][c] = FALSE]

RECURSIVE RootLoop(_, _, _, _, _)
\* The two loops of solveGrid over the roots, from root number k (row-major) on
RootLoop(g, n, cw, st, k) ==
    IF k >= n * n THEN st
    ELSE CHOOSE out \in
             { RootLoop(g, n, cw, next, k + 1) :
                 next \in { RecursivelyFind(g, n, cw, k \div n, k % n,
                                            <<>>, st) } } : TRUE

\* The state solveGrid ends in: the visited matrix and the found set
SolveGridState(g, n, cw) ==
    RootLoop(g, n, cw,
             [visited |-> [r \in Coords(n) |-> [c \in Coords(n) |-> FALSE]],
              found |-> {}],
             0)

\* solveGrid(): Array.from(found), as a set
SolveGrid(g, n, cw) == SolveGridState(g, n, cw).found


-----------------------------------------------------------------------------
(* The state the constructor leaves, and the frames of the specifications *)

\* new BoggleGame(): the fields as the constructor sets them.  interactionMoved
\* is not set before the first press and is FALSE here (it is only ever tested
\* for truth); highScores is what loadScores() finds in an empty localStorage.
Constructed ==
    /\ gameDuration = ConstructorDuration
    /\ timer = gameDuration
    /\ score = 0
    /\ foundWords = {}
    /\ isGameActive = FALSE
    /\ selectedCells = <<>>
    /\ timerInterval = 0
    /\ intervals = {}
    /\ isDragging = FALSE
    /\ interactionMoved = FALSE
    /\ currentWordEl = <<>>
    /\ highScores = <<>>
    /\ menuVisible = TRUE
    /\ gameOverVisible = FALSE
    /\ countdown = 0
    /\ missedWords = {}
    /\ rounds = 0
    /\ addedByMove = FALSE
    /\ savedScores = <<>>

\* generateGrid has not run
NoGeneration ==
    /\ attempt = 0
    /\ bestGrid = <<>>
    /\ maxFound = -1
    /\ possibleWords = {}
    /\ shuffledDice = <<>>
    /\ bestDice = <<>>
    /\ attemptCounts = <<>>

\* no solveGrid call is under way
NoSearch ==
    /\ root = 0
    /\ visited = <<>>
    /\ found = {}
    /\ callStack = <<>>

\* getScore has not run
NoScore ==
    /\ word = <<>>
    /\ points = 0

-----------------------------------------------------------------------------
(* SpecSolve: solveGrid on every grid and dictionary of a bounded family *)

SolveSizes == {2, 3}
SolveAlphabet == {"A", "T"}

\* every n x n grid over the alphabet
SolveGrids(n) == [Coords(n) -> [Coords(n) -> SolveAlphabet]]

\* no global at all, an empty dictionary, and one with a two-letter word, a
\* word and its extension, and words no 2x2 board can hold
SolveDictionaries ==
    { Undefined,
      Dictionary({}),
      Dictionary({ <<"A", "T">>,
                   <<"T", "A", "T">>,
                   <<"T", "A", "T", "A">>,
                   <<"A", "T", "T", "A">>,
                   <<"A", "A", "A", "A", "A">> }) }

InitSolve ==
    /\ Constructed /\ NoGeneration /\ NoSearch /\ NoScore
    /\ pc = "solve"
    /\ commonWords \in SolveDictionaries
    /\ gridSize \in SolveSizes
    /\ grid \in SolveGrids(gridSize)

\* const possibleWords = this.solveGrid()
CallSolveGrid ==
    /\ pc = "solve"
    /\ possibleWords' = SolveGrid(grid, gridSize, commonWords)
    /\ pc' = "solved"
    /\ UNCHANGED <<sharedVars, gameVars, scoreVars, searchVars, attempt, bestGrid,
                   maxFound, shuffledDice, bestDice, attemptCounts>>

NextSolve == CallSolveGrid

SpecSolve == InitSolve /\ [][NextSolve]_vars

-----------------------------------------------------------------------------
(* Legal paths, stated without the search *)

Max(a, b) == IF a >= b THEN a ELSE b

\* Chebyshev distance of two cells
Chebyshev(a, b) == Max(Abs(a[1] - b[1]), Abs(a[2] - b[2]))

\* a sequence of cells of the n x n board, no cell twice, consecutive cells
\* at Chebyshev distance exactly 1
LegalPath(n, p) ==
    /\ \A i \in 1..Len(p) : p[i] \in Cells(n)
    /\ \A i, j \in 1..Len(p) : i # j => p[i] # p[j]
    /\ \A i \in 1..(Len(p) - 1) : Chebyshev(p[i], p[i + 1]) = 1

RECURSIVE PathsSpelling(_, _, _, _)
\* the legal paths of the board that spell the first k letters of w
PathsSpelling(g, n, w, k) ==
    IF k = 0 THEN {<<>>}
    ELSE { Append(p, cell) :
             <<p, cell>> \in
               { pc2 \in PathsSpelling(g, n, w, k - 1) \X Cells(n) :
                   /\ g[pc2[2][1]][pc2[2][2]] = w[k]
                   /\ LegalPath(n, Append(pc2[1], pc2[2])) } }

Spellable(g, n, w) == PathsSpelling(g, n, w, Len(w)) # {}

\* C1: every word solveGrid returns has length >= 3, is in the dictionary and
\* is spelled by a legal path of the grid (consecutive cells at Chebyshev
\* distance exactly 1, no cell used twice).
SolveGridSound ==
    pc = "solved" =>
        \A w \in possibleWords :
            /\ Len(w) >= 3
            /\ commonWords.defined /\ w \in commonWords.words
            /\ \E p \in PathsSpelling(grid, gridSize, w, Len(w)) :
                   LegalPath(gridSize, p) /\ WordOf(grid, p) = w

\* C1 witness: a solved 3x3 board whose result holds a word and its extension
\* but neither the dictionary's two-letter word nor the word whose letters
\* are on the board without a legal path through them
SolveGridSoundWitness ==
    /\ pc = "solved"
    /\ gridSize = 3
    /\ <<"T", "A", "T", "A">> \in possibleWords
    /\ <<"T", "A", "T">> \in possibleWords
    /\ <<"A", "T", "T", "A">> \notin possibleWords
    /\ <<"A", "T">> \notin possibleWords

\* C2: every dictionary word of length >= 3 that some legal path of the grid
\* spells is in the set solveGrid returns.
SolveGridComplete ==
    pc = "solved" /\ commonWords.defined =>
        \A w \in commonWords.words :
            Len(w) >= 3 /\ Spellable(grid, gridSize, w) => w \in possibleWords

\* C2 witness: a solved board on which a word and its one-letter extension
\* are both spellable, the longer one only past the shorter (prefix) one
SolveGridCompleteWitness ==
    /\ pc = "solved"
    /\ commonWords.defined
    /\ Spellable(grid, gridSize, <<"T", "A", "T">>)
    /\ Spellable(grid, gridSize, <<"T", "A", "T", "A">>)
    /\ Spellable(grid, gridSize, <<"A", "A", "A", "A", "A">>)
    /\ {<<"T", "A", "T">>, <<"T", "A", "T", "A">>,
        <<"A", "A", "A", "A", "A">>} \subseteq possibleWords


-----------------------------------------------------------------------------
(* The dice and buildGridData *)

\* the two boards the start menu offers: btn-4x4 and btn-5x5, scaled down
SmallSize == 2
BigSize == 3
Sizes == {SmallSize, BigSize}

\* DICE: SmallSize^2 dice of 6 faces, one of them with a lower-case face
\* (as "AEEGmN" in the program)
DICE ==
    << <<"C", "C", "C", "D", "D", "D">>,
       <<"A", "A", "A", "O", "O", "O">>,
       <<"T", "T", "T", "G", "G", "G">>,
       <<"S", "S", "S", "E", "m", "M">> >>

\* DICE_EXTENDED: the extra dice of the big board
DICE_EXTENDED ==
    << <<"R", "R", "R", "R", "A", "A">>,
       <<"E", "E", "E", "E", "T", "T">>,
       <<"A", "A", "A", "N", "N", "N">>,
       <<"T", "T", "T", "T", "O", "O">>,
       <<"S", "S", "S", "S", "S", "S">> >>

RECURSIVE RepeatDice(_, _)
\* while (sourceDice.length < totalSorts) sourceDice = [...sourceDice, ...DICE]
RepeatDice(sourceDice, totalSorts) ==
    IF Len(sourceDice) < totalSorts
    THEN RepeatDice(sourceDice \o DICE, totalSorts)
    ELSE sourceDice

\* the dice pool buildGridData shuffles
SourceDice(size) ==
    RepeatDice(IF size = BigSize THEN DICE \o DICE_EXTENDED ELSE DICE,
               size * size)

\* The outcomes of sourceDice.sort(() => Math.random() - 0.5) the model draws:
\* a permutation of the pool's positions, here its rotations by 0..MaxRot
ShuffleInputs(len) ==
    { [i \in 1..len |-> ((i - 1 + k) % len) + 1] : k \in 0..MaxRot }

\* The outcomes of Math.floor(Math.random() * 6), one per die index, the model
\* draws: face (k + s * j) % 6 for die j
RollInputs(totalSorts) ==
    { [j \in 0..(totalSorts - 1) |-> (k + s * j) % Faces] :
        k \in 0..(Faces - 1), s \in 0..MaxStride }

\* .sort(...).slice(0, totalSorts): the dice in shuffled order, cut to the board
ShuffledDice(size, perm) ==
    [i \in 1..(size * size) |-> SourceDice(size)[perm[i]]]

\* mutant of BuildGridRows: the die index computed with the column first
BuildGridRowsTransposed(size, dice, roll) ==
    [i \in Coords(size) |->
        [j \in Coords(size) |->
            UpperChar(dice[j * size + i + 1][roll[i * size + j] + 1])]]

\* mutant of BuildGridRows: the face not upper-cased
BuildGridRowsRaw(size, dice, roll) ==
    [i \in Coords(size) |->
        [j \in Coords(size) |->
            dice[i * size + j + 1][roll[i * size + j] + 1]]]

\* the two loops of buildGridData: cell (i, j) takes the die of index
\* i * size + j and shows the upper case of the face rolled for it
BuildGridRows(size, dice, roll) ==
    [i \in Coords(size) |->
        [j \in Coords(size) |->
            UpperChar(dice[i * size + j + 1][roll[i * size + j] + 1])]]

\* buildGridData() for one outcome of the shuffle and of the rolls
BuildGridData(size, perm, roll) ==
    LET dice == ShuffledDice(size, perm)
    IN  [grid |-> BuildGridRows(size, dice, roll), shuffledDice |-> dice]

\* every grid buildGridData can leave in this.grid
BuildableGrids(size) ==
    { BuildGridData(size, perm, roll).grid :
        perm \in ShuffleInputs(Len(SourceDice(size))),
        roll \in RollInputs(size * size) }


-----------------------------------------------------------------------------
(* Scoring and the high-score list *)

\* const SCORING = { 3: 1, 4: 1, 5: 2, 6: 3, 7: 5, 8: 11 }
SCORING == (3 :> 1) @@ (4 :> 1) @@ (5 :> 2) @@ (6 :> 3) @@ (7 :> 5) @@ (8 :> 11)

\* mutant of GetScore: one point per letter
GetScorePerLetter(w) == Len(w)

\* mutant of GetScore: the table's last entry not reached by longer words
GetScoreTableOnly(w) ==
    IF Len(w) \in DOMAIN SCORING THEN SCORING[Len(w)] ELSE 1

\* getScore(word): SCORING[len] || 1 below 8 letters, 11 from 8 letters on
GetScore(w) ==
    LET len == Len(w)
    IN  IF len >= 8 THEN 11
        ELSE IF len \in DOMAIN SCORING /\ SCORING[len] # 0 THEN SCORING[len]
        ELSE 1

RECURSIVE InsertDescending(_, _)
\* x put into a descending list, behind the entries that are not smaller
InsertDescending(list, x) ==
    IF list = <<>> THEN <<x>>
    ELSE IF Head(list) < x THEN <<x>> \o list
    ELSE <<Head(list)>> \o InsertDescending(Tail(list), x)

RECURSIVE SortDescending(_)
\* this.highScores.sort((a, b) => b.score - a.score): a stable sort
SortDescending(list) ==
    IF list = <<>> THEN <<>>
    ELSE InsertDescending(SortDescending(SubSeq(list, 1, Len(list) - 1)),
                          list[Len(list)])

\* mutant of SaveScore: the list cut to its first ten entries before the sort
SaveScoreSliceBeforeSort(list, sc) ==
    IF sc = 0 THEN list
    ELSE LET pushed == Append(list, sc)
         IN  SortDescending(SubSeq(pushed, 1,
                                   IF Len(pushed) < TopScores THEN Len(pushed)
                                   ELSE TopScores))

\* saveScore(score), the entries reduced to their scores
SaveScore(list, sc) ==
    IF sc = 0 THEN list
    ELSE LET sorted == SortDescending(Append(list, sc))
         IN  SubSeq(sorted, 1, IF Len(sorted) < TopScores THEN Len(sorted)
                                ELSE TopScores)

-----------------------------------------------------------------------------
(* The selection path: trySelectCell and what it calls *)

\* isCellSelected(r, c)
IsCellSelected(sel, cell) == \E i \in 1..Len(sel) : sel[i] = cell

\* selectCell: this.selectedCells.push(...)
SelectCell(sel, cell) == Append(sel, cell)

\* mutant of DeselectLast: two cells popped
DeselectLastTwo(sel) ==
    IF Len(sel) < 2 THEN <<>> ELSE SubSeq(sel, 1, Len(sel) - 2)

\* deselectLast: this.selectedCells.pop()
DeselectLast(sel) == IF sel = <<>> THEN sel ELSE SubSeq(sel, 1, Len(sel) - 1)

\* mutant of TrySelectCell: the isCellSelected test left out
TrySelectCellNoRepeatTest(sel, cell) ==
    LET len == Len(sel)
    IN  IF len > 1 /\ sel[len - 1] = cell THEN DeselectLast(sel)
        ELSE IF len >= 1
        THEN LET dr == Abs(cell[1] - sel[len][1])
                 dc == Abs(cell[2] - sel[len][2])
             IN  IF dr <= 1 /\ dc <= 1 /\ ~(dr = 0 /\ dc = 0)
                 THEN SelectCell(sel, cell)
                 ELSE sel
        ELSE SelectCell(sel, cell)

\* mutant of TrySelectCell: the adjacency test left out
TrySelectCellNoAdjacencyTest(sel, cell) ==
    LET len == Len(sel)
    IN  IF len > 1 /\ sel[len - 1] = cell THEN DeselectLast(sel)
        ELSE IF len >= 1
        THEN IF ~IsCellSelected(sel, cell)
             THEN SelectCell(sel, cell)
             ELSE sel
        ELSE SelectCell(sel, cell)

\* mutant of TrySelectCell: a target equal to the last cell deselects it
TrySelectCellLastDeselects(sel, cell) ==
    LET len == Len(sel)
    IN  IF len >= 1 /\ sel[len] = cell THEN DeselectLast(sel)
        ELSE IF len > 1 /\ sel[len - 1] = cell THEN DeselectLast(sel)
        ELSE IF len >= 1
        THEN LET dr == Abs(cell[1] - sel[len][1])
                 dc == Abs(cell[2] - sel[len][2])
             IN  IF dr <= 1 /\ dc <= 1 /\ ~(dr = 0 /\ dc = 0)
                 THEN IF ~IsCellSelected(sel, cell)
                      THEN SelectCell(sel, cell)
                      ELSE sel
                 ELSE sel
        ELSE SelectCell(sel, cell)

\* trySelectCell(cellEl): the selection it leaves
TrySelectCell(sel, cell) ==
    LET len == Len(sel)
    IN  IF len > 1 /\ sel[len - 1] = cell THEN DeselectLast(sel)
        ELSE IF len >= 1
        THEN LET dr == Abs(cell[1] - sel[len][1])
                 dc == Abs(cell[2] - sel[len][2])
             IN  IF dr <= 1 /\ dc <= 1 /\ ~(dr = 0 /\ dc = 0)
                 THEN IF ~IsCellSelected(sel, cell)
                      THEN SelectCell(sel, cell)
                      ELSE sel
                 ELSE sel
        ELSE SelectCell(sel, cell)

\* trySelectCell as a step: selectCell and deselectLast end in
\* updateCurrentWord, an ignored target leaves the text as it is
TrySelectStep(cell) ==
    /\ selectedCells' = TrySelectCell(selectedCells, cell)
    /\ Len(selectedCells') <= MaxPath
    /\ currentWordEl' = IF selectedCells' # selectedCells
                        THEN WordOf(grid, selectedCells')
                        ELSE currentWordEl

\* clearSelection()
ClearSelection ==
    /\ selectedCells' = <<>>
    /\ currentWordEl' = WordOf(grid, <<>>)

-----------------------------------------------------------------------------
(* submitWord *)

\* mutant of AddScore: the running total replaced by the word's points
AddScoreOverwrite(sc, w) == GetScore(w)

\* mutant of AddScore: the points taken off the running total
AddScoreSubtract(sc, w) == sc - GetScore(w)

\* addScore(word): this.score += this.getScore(word)
AddScore(sc, w) == sc + GetScore(w)

\* mutant of SubmitActive: the points added before the word is validated
SubmitActiveScoreFirst(isAuto) ==
    LET w == ToLocaleUpperCase(currentWordEl)
    IN  /\ ClearSelection
        /\ score' = AddScore(score, w)
        /\ IF Len(w) < 3
           THEN UNCHANGED foundWords
           ELSE IF w \in foundWords
           THEN UNCHANGED foundWords
           ELSE IF commonWords.defined /\ ~Includes(commonWords, w)
           THEN UNCHANGED foundWords
           ELSE /\ Cardinality(foundWords) < MaxFound
                /\ foundWords' = foundWords \cup {w}

\* mutant of SubmitActive: the test of this.foundWords left out
SubmitActiveNoDuplicateTest(isAuto) ==
    LET w == ToLocaleUpperCase(currentWordEl)
    IN  /\ ClearSelection
        /\ IF Len(w) < 3
           THEN UNCHANGED <<score, foundWords>>
           ELSE IF commonWords.defined /\ ~Includes(commonWords, w)
           THEN UNCHANGED <<score, foundWords>>
           ELSE /\ Cardinality(foundWords) < MaxFound \/ w \in foundWords
                /\ score' = AddScore(score, w)
                /\ foundWords' = foundWords \cup {w}

\* mutant of SubmitActive: a rejected candidate stays selected
SubmitActiveKeepsRejected(isAuto) ==
    LET w == ToLocaleUpperCase(currentWordEl)
    IN  IF Len(w) < 3
        THEN UNCHANGED <<score, foundWords, selectedCells, currentWordEl>>
        ELSE IF w \in foundWords
        THEN UNCHANGED <<score, foundWords, selectedCells, currentWordEl>>
        ELSE IF commonWords.defined /\ ~Includes(commonWords, w)
        THEN UNCHANGED <<score, foundWords, selectedCells, currentWordEl>>
        ELSE /\ Cardinality(foundWords) < MaxFound
             /\ score' = AddScore(score, w)
             /\ foundWords' = foundWords \cup {w}
             /\ ClearSelection

\* submitWord(isAuto) in an active round: too short, already found, not in the
\* dictionary, or valid; every branch ends in clearSelection().  isAuto only
\* decides whether the too-short message is shown, and the messages
\* (showMessage, animateInvalid) are no part of the state.
SubmitActive(isAuto) ==
    LET w == ToLocaleUpperCase(currentWordEl)
    IN  /\ ClearSelection
        /\ IF Len(w) < 3
           THEN UNCHANGED <<score, foundWords>>
           ELSE IF w \in foundWords
           THEN UNCHANGED <<score, foundWords>>
           ELSE IF commonWords.defined /\ ~Includes(commonWords, w)
           THEN UNCHANGED <<score, foundWords>>
           ELSE /\ Cardinality(foundWords) < MaxFound
                /\ score' = AddScore(score, w)
                /\ foundWords' = foundWords \cup {w}

\* mutant of SubmitWord: the test of this.isGameActive left out
SubmitWordNoActiveTest(isAuto) == SubmitActive(isAuto)

\* submitWord(isAuto)
SubmitWord(isAuto) ==
    IF ~isGameActive
    THEN UNCHANGED <<score, foundWords, selectedCells, currentWordEl>>
    ELSE SubmitActive(isAuto)


-----------------------------------------------------------------------------
(* Spec: the rounds of the game, driven by the menu, the pointer, the        *)
(* buttons and the timers.  The size buttons sit in the start menu and the   *)
(* restart button in the game-over dialog: they are clicked only while       *)
(* their dialog is visible.  The grid, the submit and the clear button take  *)
(* events at any time.                                                       *)

\* the dictionary dictionary.js defines in the rounds of Spec
GameDictionaries ==
    { Dictionary({ <<"A", "T">>,
                   <<"C", "A", "T">>,
                   <<"C", "A", "T", "S">>,
                   <<"C", "A", "R", "S">>,
                   <<"M", "O", "D">>,
                   <<"M", "A", "T">>,
                   <<"C", "A", "T", "E", "R">> }) }

\* what the pointer is over: a die cell of the rendered grid, or none
NoCell == <<-1, -1>>
PointerTargets == Cells(gridSize) \cup {NoCell}

Init ==
    /\ Constructed /\ NoGeneration /\ NoSearch /\ NoScore
    /\ pc = "game"
    /\ commonWords \in GameDictionaries
    /\ gridSize = 0
    /\ grid = <<>>

\* resetState()
ResetState ==
    /\ score' = 0
    /\ foundWords' = {}
    /\ selectedCells' = <<>>
    /\ missedWords' = {}

\* startGame(size): generateGrid() commits one of the grids buildGridData can
\* build (see GenerateCommitsBuildable), then the countdown starts
StartGame(size) ==
    /\ menuVisible
    /\ rounds < MaxRounds
    /\ rounds' = rounds + 1
    /\ gridSize' = size
    /\ menuVisible' = FALSE
    /\ gameDuration' = GameDuration
    /\ timer' = gameDuration'
    /\ grid' \in BuildableGrids(size)
    /\ countdown' = CountdownFrom + 1
    /\ UNCHANGED <<addedByMove,
                   commonWords, score, foundWords, isGameActive, selectedCells,
                   timerInterval, intervals, isDragging, interactionMoved,
                   currentWordEl, highScores, savedScores, gameOverVisible,
                   missedWords, genVars, scoreVars, searchVars, pc>>

\* one setTimeout of startCountdown that is not the last
CountdownStep ==
    /\ countdown > 1
    /\ countdown' = countdown - 1
    /\ UNCHANGED <<addedByMove,
                   sharedVars, gameDuration, timer, score, foundWords,
                   isGameActive, selectedCells, timerInterval, intervals,
                   isDragging, interactionMoved, currentWordEl, highScores,
                   savedScores, menuVisible, gameOverVisible, missedWords,
                   rounds, genVars, scoreVars, searchVars, pc>>

\* the id setInterval returns: one that no live interval has
NewInterval == CHOOSE id \in 1..(Cardinality(intervals) + 1) : id \notin intervals

\* the last setTimeout of startCountdown: callback(), that is initGame():
\* startTimer(), isGameActive = true, resetState()
InitGame ==
    /\ countdown = 1
    /\ countdown' = 0
    /\ timerInterval' = NewInterval
    /\ intervals' = intervals \cup {NewInterval}
    /\ isGameActive' = TRUE
    /\ ResetState
    /\ UNCHANGED <<addedByMove,
                   sharedVars, gameDuration, timer, isDragging,
                   interactionMoved, currentWordEl, highScores, savedScores,
                   menuVisible, gameOverVisible, rounds, genVars, scoreVars, searchVars, pc>>

\* endGame() without its clearInterval: the interval stays live
EndGameKeepsInterval ==
    /\ intervals' = intervals
    /\ isGameActive' = FALSE
    /\ gameOverVisible' = TRUE
    /\ highScores' = SaveScore(highScores, score)
    /\ savedScores' = Append(savedScores, score)
    /\ missedWords' = SolveGrid(grid, gridSize, commonWords) \ foundWords

\* endGame(), called from the interval's callback
EndGame ==
    /\ intervals' = intervals \ {timerInterval}
    /\ isGameActive' = FALSE
    /\ gameOverVisible' = TRUE
    /\ highScores' = SaveScore(highScores, score)
    /\ savedScores' = Append(savedScores, score)
    /\ missedWords' = SolveGrid(grid, gridSize, commonWords) \ foundWords

\* the callback of an interval of startTimer
Tick(id) ==
    /\ id \in intervals
    /\ timer' = timer - 1
    /\ IF timer' <= 0
       THEN EndGame
       ELSE UNCHANGED <<intervals, isGameActive, gameOverVisible, highScores,
                        savedScores, missedWords>>
    /\ UNCHANGED <<addedByMove,
                   sharedVars, gameDuration, score, foundWords, selectedCells,
                   timerInterval, isDragging, interactionMoved, currentWordEl,
                   menuVisible, countdown, rounds, genVars,
                   scoreVars, searchVars, pc>>

\* handleInputStart(e): mousedown / touchstart on the grid
HandleInputStart(cell) ==
    /\ IF isGameActive /\ cell # NoCell
       THEN /\ isDragging' = TRUE
            /\ interactionMoved' = FALSE
            /\ addedByMove' = FALSE
            /\ TrySelectStep(cell)
       ELSE UNCHANGED <<isDragging, interactionMoved, addedByMove,
                        selectedCells, currentWordEl>>
    /\ UNCHANGED <<sharedVars, gameDuration, timer, score, foundWords,
                   isGameActive, timerInterval, intervals, highScores, savedScores,
                   menuVisible, gameOverVisible, countdown, missedWords,
                   rounds, genVars, scoreVars, searchVars, pc>>

\* handleInputMove(e): mousemove / touchmove anywhere in the document
HandleInputMove(cell) ==
    /\ IF isDragging /\ isGameActive /\ cell # NoCell
       THEN /\ TrySelectStep(cell)
            /\ interactionMoved' =
                   IF Len(selectedCells') # Len(selectedCells) THEN TRUE
                   ELSE interactionMoved
            /\ addedByMove' =
                   IF Len(selectedCells') > Len(selectedCells)
                      /\ Len(selectedCells) >= 1
                   THEN TRUE
                   ELSE addedByMove
       ELSE UNCHANGED <<interactionMoved, addedByMove, selectedCells,
                        currentWordEl>>
    /\ UNCHANGED <<sharedVars, gameDuration, timer, score, foundWords,
                   isGameActive, timerInterval, intervals, isDragging,
                   highScores, savedScores, menuVisible, gameOverVisible,
                   countdown, missedWords, rounds, genVars, scoreVars, searchVars, pc>>

\* mutant of HandleInputEnd: every release with a path submits it
HandleInputEndAlwaysSubmits ==
    /\ IF isDragging
       THEN /\ isDragging' = FALSE
            /\ addedByMove' = FALSE
            /\ IF Len(selectedCells) >= 1
               THEN SubmitWord(TRUE)
               ELSE UNCHANGED <<score, foundWords, selectedCells,
                                currentWordEl>>
       ELSE UNCHANGED <<isDragging, addedByMove, score, foundWords,
                        selectedCells, currentWordEl>>
    /\ UNCHANGED <<sharedVars, gameDuration, timer, isGameActive,
                   timerInterval, intervals, interactionMoved, highScores, savedScores,
                   menuVisible, gameOverVisible, countdown, missedWords,
                   rounds, genVars, scoreVars, searchVars, pc>>

\* handleInputEnd(): mouseup / touchend anywhere in the document
HandleInputEnd ==
    /\ IF isDragging
       THEN /\ isDragging' = FALSE
            /\ addedByMove' = FALSE
            /\ IF interactionMoved /\ Len(selectedCells) >= 1
               THEN SubmitWord(TRUE)
               ELSE UNCHANGED <<score, foundWords, selectedCells,
                                currentWordEl>>
       ELSE UNCHANGED <<isDragging, addedByMove, score, foundWords,
                        selectedCells, currentWordEl>>
    /\ UNCHANGED <<sharedVars, gameDuration, timer, isGameActive,
                   timerInterval, intervals, interactionMoved, highScores, savedScores,
                   menuVisible, gameOverVisible, countdown, missedWords,
                   rounds, genVars, scoreVars, searchVars, pc>>

\* the click on submit-btn: submitWord()
SubmitClick ==
    /\ SubmitWord(FALSE)
    /\ UNCHANGED <<addedByMove,
                   sharedVars, gameDuration, timer, isGameActive,
                   timerInterval, intervals, isDragging, interactionMoved,
                   highScores, savedScores, menuVisible, gameOverVisible, countdown,
                   missedWords, rounds, genVars, scoreVars, searchVars, pc>>

\* the click on clear-btn: clearSelection()
ClearClick ==
    /\ ClearSelection
    /\ UNCHANGED <<addedByMove,
                   sharedVars, gameDuration, timer, score, foundWords,
                   isGameActive, timerInterval, intervals, isDragging,
                   interactionMoved, highScores, savedScores, menuVisible,
                   gameOverVisible, countdown, missedWords, rounds, genVars,
                   scoreVars, searchVars, pc>>

\* the click on restart-btn: resetMenu()
ResetMenu ==
    /\ gameOverVisible
    /\ gameOverVisible' = FALSE
    /\ menuVisible' = TRUE
    /\ currentWordEl' = <<>>
    /\ ResetState
    /\ UNCHANGED <<addedByMove,
                   sharedVars, gameDuration, timer, isGameActive,
                   timerInterval, intervals, isDragging, interactionMoved,
                   highScores, savedScores, countdown, rounds, genVars,
                   scoreVars, searchVars, pc>>

Next ==
    \/ \E size \in Sizes : StartGame(size)
    \/ CountdownStep
    \/ InitGame
    \/ \E id \in intervals : Tick(id)
    \/ \E cell \in PointerTargets : HandleInputStart(cell)
    \/ \E cell \in PointerTargets : HandleInputMove(cell)
    \/ HandleInputEnd
    \/ SubmitClick
    \/ ClearClick
    \/ ResetMenu

Spec == Init /\ [][Next]_vars


-----------------------------------------------------------------------------
(* The claims about the selection path and the submission flow *)

\* the points of a word of the given length, as the scoring table states them
ScoreOfLength(len) ==
    CASE len \in {3, 4} -> 1
      [] len = 5 -> 2
      [] len = 6 -> 3
      [] len = 7 -> 5
      [] len >= 8 -> 11
      [] OTHER -> 1

\* the candidate word a submission reads
CandidateWord == ToLocaleUpperCase(currentWordEl)

\* a step in which submitWord runs: the submit button, or the release of a drag
\* that moved
SubmissionStep ==
    \/ SubmitClick
    \/ HandleInputEnd /\ isDragging /\ interactionMoved /\ Len(selectedCells) >= 1

\* C3: after any sequence of selection inputs the current path contains no
\* coordinate twice and every consecutive pair of its cells is at Chebyshev
\* distance exactly 1.
SelectionPathLegal ==
    /\ \A i, j \in 1..Len(selectedCells) :
           i # j => selectedCells[i] # selectedCells[j]
    /\ \A i \in 1..(Len(selectedCells) - 1) :
           Chebyshev(selectedCells[i], selectedCells[i + 1]) = 1

\* C3 witness: a path of four cells on the 3x3 board with a diagonal step,
\* grown while the drag had already moved (appends and backtracks behind it)
SelectionPathLegalWitness ==
    /\ gridSize = 3
    /\ isDragging /\ interactionMoved
    /\ selectedCells = << <<0, 0>>, <<1, 1>>, <<0, 2>>, <<1, 2>> >>

\* C4: in a round, a submission whose candidate word has length >= 3, is not
\* in foundWords and is in the dictionary inserts exactly that word into
\* foundWords and adds exactly the points of its length to the score.
SubmitAccepts ==
    [][ ( /\ SubmissionStep
          /\ isGameActive
          /\ Len(CandidateWord) >= 3
          /\ CandidateWord \notin foundWords
          /\ commonWords.defined
          /\ CandidateWord \in commonWords.words )
        => ( /\ foundWords' = foundWords \cup {CandidateWord}
             /\ score' = score + ScoreOfLength(Len(CandidateWord)) ) ]_vars

\* C4 witness: a round in which two dictionary words have been accepted, one
\* of three and one of four letters
SubmitAcceptsWitness ==
    /\ isGameActive
    /\ foundWords = {<<"C", "A", "T">>, <<"C", "A", "R", "S">>}
    /\ score = 2

\* C5: a submission rejected as too short, as a duplicate or as not in the
\* dictionary leaves score and foundWords as they were.
SubmitRejectsUnchanged ==
    [][ ( /\ SubmissionStep
          /\ isGameActive
          /\ \/ Len(CandidateWord) < 3
             \/ CandidateWord \in foundWords
             \/ commonWords.defined /\ CandidateWord \notin commonWords.words )
        => UNCHANGED <<score, foundWords>> ]_vars

\* C5 witness: a round with points on the board in which the candidate under
\* the pointer is a path of three cells that spells no dictionary word
SubmitRejectsUnchangedWitness ==
    /\ isGameActive
    /\ score > 0
    /\ Len(CandidateWord) >= 3
    /\ CandidateWord \notin foundWords
    /\ CandidateWord \notin commonWords.words
    /\ CandidateWord = WordOf(grid, selectedCells)

RECURSIVE SumOfScores(_)
\* the sum of the points of the words of a set
SumOfScores(ws) ==
    IF ws = {} THEN 0
    ELSE LET w == CHOOSE x \in ws : TRUE
         IN  ScoreOfLength(Len(w)) + SumOfScores(ws \ {w})

\* C6: a word is scored at most once per round: a submission of a word that is
\* in foundWords changes neither score nor foundWords, and at every point the
\* score is the sum of the points of the words in foundWords.
ScoredOncePerRound ==
    /\ [](score = SumOfScores(foundWords))
    /\ [][ (SubmissionStep /\ isGameActive /\ CandidateWord \in foundWords)
           => UNCHANGED <<score, foundWords>> ]_vars

\* C6 witness: in the second round of a run, after the reset, a found word is
\* the candidate again
ScoredOncePerRoundWitness ==
    /\ rounds = 2
    /\ isGameActive
    /\ highScores # <<>>
    /\ score = 1
    /\ CandidateWord \in foundWords


-----------------------------------------------------------------------------
(* SpecScore: getScore on two words of a bounded family *)

\* every word of up to MaxWordLen letters over two letters
ScoreWords == UNION { [1..n -> {"A", "T"}] : n \in 0..MaxWordLen }

\* the words of up to MaxWordLen letters over one letter
ScoreProbes == UNION { [1..n -> {"A"}] : n \in 0..MaxWordLen }

InitScore ==
    /\ Constructed /\ NoGeneration /\ NoSearch
    /\ commonWords = Undefined
    /\ gridSize = 0
    /\ grid = <<>>
    /\ pc = "score"
    /\ word \in ScoreWords \X ScoreProbes
    /\ points = <<0, 0>>

\* this.getScore(word), for either word
CallGetScore ==
    /\ pc = "score"
    /\ points' = <<GetScore(word[1]), GetScore(word[2])>>
    /\ pc' = "scored"
    /\ UNCHANGED <<sharedVars, gameVars, genVars, searchVars, word>>

NextScore == CallGetScore

SpecScore == InitScore /\ [][NextScore]_vars

\* C7: getScore depends only on the length of the word, gives 1 for lengths 3
\* and 4, 2 for 5, 3 for 6, 5 for 7 and 11 from 8 on, and never gives a
\* longer word fewer points than a shorter one.
GetScoreTable ==
    pc = "scored" =>
        /\ Len(word[1]) \in {3, 4} => points[1] = 1
        /\ Len(word[1]) = 5 => points[1] = 2
        /\ Len(word[1]) = 6 => points[1] = 3
        /\ Len(word[1]) = 7 => points[1] = 5
        /\ Len(word[1]) >= 8 => points[1] = 11
        /\ Len(word[1]) = Len(word[2]) => points[1] = points[2]
        /\ Len(word[1]) <= Len(word[2]) => points[1] <= points[2]

\* C7 witness: a word of 9 letters scored 11 next to a different word of 8
\* letters scored 11
GetScoreTableWitness ==
    /\ pc = "scored"
    /\ Len(word[1]) = 9 /\ Len(word[2]) = 8
    /\ "T" \in Range(word[1])
    /\ points = <<11, 11>>

-----------------------------------------------------------------------------
(* SpecGen: generateGrid, one step per buildGridData() call and per          *)
(* evaluation of the candidate it built                                      *)

\* no global at all, and the dictionary of the rounds
GenDictionaries == {Undefined} \cup GameDictionaries

InitGen ==
    /\ Constructed /\ NoGeneration /\ NoSearch /\ NoScore
    /\ commonWords \in GenDictionaries
    /\ gridSize \in Sizes
    /\ grid = <<>>
    /\ pc = "build"

\* this.buildGridData() of attempt i < MAX_ATTEMPTS
GenBuild ==
    /\ pc = "build"
    /\ attempt < MAX_ATTEMPTS
    /\ \E perm \in ShuffleInputs(Len(SourceDice(gridSize))),
          roll \in RollInputs(gridSize * gridSize) :
          LET built == BuildGridData(gridSize, perm, roll)
          IN  /\ grid' = built.grid
              /\ shuffledDice' = built.shuffledDice
    /\ pc' = "solve"
    /\ UNCHANGED <<commonWords, gridSize, gameVars, scoreVars, searchVars, attempt,
                   bestGrid, maxFound, possibleWords, bestDice, attemptCounts>>

\* mutant of GoodEnough: the threshold has to be exceeded
GoodEnoughStrict(count) == count > MIN_WORDS

\* possibleWords.length >= MIN_WORDS
GoodEnough(count) == count >= MIN_WORDS

\* mutant of BetterThanBest: every candidate replaces the best one
BetterThanBestAlways(count, best) == TRUE

\* possibleWords.length > maxFound
BetterThanBest(count, best) == count > best

\* the rest of the loop body: solveGrid(), the early exit with renderGrid(),
\* the update of the best candidate, i++
GenSolve ==
    /\ pc = "solve"
    /\ possibleWords' = SolveGrid(grid, gridSize, commonWords)
    /\ attemptCounts' = Append(attemptCounts, Cardinality(possibleWords'))
    /\ IF GoodEnough(Cardinality(possibleWords'))
       THEN /\ pc' = "committed"
            /\ UNCHANGED <<attempt, bestGrid, maxFound, bestDice>>
       ELSE /\ pc' = "build"
            /\ attempt' = attempt + 1
            /\ IF BetterThanBest(Cardinality(possibleWords'), maxFound)
               THEN /\ maxFound' = Cardinality(possibleWords')
                    /\ bestGrid' = grid
                    /\ bestDice' = shuffledDice
               ELSE UNCHANGED <<bestGrid, maxFound, bestDice>>
    /\ UNCHANGED <<sharedVars, gameVars, scoreVars, searchVars, shuffledDice>>

\* after the loop: this.grid = bestGrid; this.renderGrid()
GenFallback ==
    /\ pc = "build"
    /\ ~(attempt < MAX_ATTEMPTS)
    /\ grid' = bestGrid
    /\ shuffledDice' = bestDice
    /\ pc' = "committed"
    /\ UNCHANGED <<commonWords, gridSize, gameVars, scoreVars, searchVars, attempt,
                   bestGrid, maxFound, possibleWords, bestDice, attemptCounts>>

NextGen == GenBuild \/ GenSolve \/ GenFallback

SpecGen == InitGen /\ [][NextGen]_vars

\* generateGrid commits only grids buildGridData can build: the grids
\* StartGame draws from
GenerateCommitsBuildable ==
    pc = "committed" => grid \in BuildableGrids(gridSize)

RECURSIVE MaxOfSeq(_)
\* the greatest entry of a non-empty sequence of numbers
MaxOfSeq(counts) ==
    IF Len(counts) = 1 THEN counts[1]
    ELSE Max(counts[Len(counts)], MaxOfSeq(SubSeq(counts, 1, Len(counts) - 1)))

\* the number of words a solver run finds on the grid in this.grid
WordCount == Cardinality(SolveGrid(grid, gridSize, commonWords))

\* the steps generateGrid has left at most: two per attempt not yet made, and
\* the commit
GenMeasure ==
    CASE pc = "build" -> 2 * (MAX_ATTEMPTS - attempt) + 2
      [] pc = "solve" -> 2 * (MAX_ATTEMPTS - attempt) + 1
      [] OTHER -> 0

\* C8: when no candidate reaches MIN_WORDS, generateGrid ends after exactly
\* MAX_ATTEMPTS attempts with a grid whose word count is the highest count of
\* all attempts; it never hangs: between two attempts it can always build or
\* fall back, and every step brings the commit nearer.
GenerateFallsBack ==
    /\ []( /\ attempt <= MAX_ATTEMPTS
           /\ GenMeasure >= 0
           /\ pc \in {"build", "solve", "committed"}
           /\ pc = "build" => ENABLED (GenBuild \/ GenFallback)
           /\ ( /\ pc = "committed"
                /\ \A k \in 1..Len(attemptCounts) :
                       attemptCounts[k] < MIN_WORDS )
              => /\ Len(attemptCounts) = MAX_ATTEMPTS
                 /\ attempt = MAX_ATTEMPTS
                 /\ WordCount = MaxOfSeq(attemptCounts) )
    /\ [][GenMeasure' < GenMeasure]_vars

\* C8 witness: a grid committed after MAX_ATTEMPTS attempts that found
\* different numbers of words, the best of them not the last
GenerateFallsBackWitness ==
    /\ pc = "committed"
    /\ Len(attemptCounts) = MAX_ATTEMPTS
    /\ attemptCounts[1] = 0
    /\ attemptCounts[2] = 1
    /\ attemptCounts[3] = 0
    /\ WordCount = 1

\* C9: generateGrid stops at the first attempt whose word count is >=
\* MIN_WORDS and commits the grid of that attempt: the step that commits it
\* leaves this.grid alone, no earlier attempt reached MIN_WORDS, and no step
\* follows.
GenerateExitsEarly ==
    /\ []( ( /\ pc = "committed"
             /\ \E k \in 1..Len(attemptCounts) : attemptCounts[k] >= MIN_WORDS )
           => /\ attemptCounts[Len(attemptCounts)] >= MIN_WORDS
              /\ \A k \in 1..(Len(attemptCounts) - 1) :
                     attemptCounts[k] < MIN_WORDS
              /\ WordCount = attemptCounts[Len(attemptCounts)]
              /\ Len(attemptCounts) = attempt + 1
              /\ ~ENABLED NextGen )
    /\ [][ (pc = "solve" /\ pc' = "committed")
           => /\ grid' = grid
              /\ Cardinality(SolveGrid(grid, gridSize, commonWords)) >= MIN_WORDS
         ]_vars

\* C9 witness: a grid committed at the second of the attempts, the first one
\* having found a word but too few
GenerateExitsEarlyWitness ==
    /\ pc = "committed"
    /\ Len(attemptCounts) = 2
    /\ attemptCounts[1] = 1
    /\ attemptCounts[2] >= MIN_WORDS

\* C10: every grid generateGrid commits has exactly gridSize x gridSize
\* cells, each holding the upper case of one of the 6 faces of the die dealt
\* to its position (die i * gridSize + j for the cell in row i, column j).
CommittedGridFromDice ==
    pc = "committed" =>
        /\ DOMAIN grid = Coords(gridSize)
        /\ \A i \in Coords(gridSize) : DOMAIN grid[i] = Coords(gridSize)
        /\ Len(shuffledDice) = gridSize * gridSize
        /\ \A i, j \in Coords(gridSize) :
               /\ grid[i][j] \in UpperCaseLetters
               /\ Len(shuffledDice[i * gridSize + j + 1]) = Faces
               /\ \E f \in 1..Faces :
                      grid[i][j] = UpperChar(shuffledDice[i * gridSize + j + 1][f])

\* C10 witness: a grid committed by the fallback, not built last, that shows
\* the upper case of a lower-case face
CommittedGridFromDiceWitness ==
    /\ pc = "committed"
    /\ Len(attemptCounts) = MAX_ATTEMPTS
    /\ attemptCounts[Len(attemptCounts)] < MaxOfSeq(attemptCounts)
    /\ MaxOfSeq(attemptCounts) < MIN_WORDS
    /\ \E i, j \in Coords(gridSize) :
           /\ grid[i][j] = "M"
           /\ "m" \in Range(shuffledDice[i * gridSize + j + 1])

-----------------------------------------------------------------------------
(* SpecScenario: solveGrid on the 4x4 board of the worked scenario, on the  *)
(* boards that differ from it in one cell, with every part of its dictionary *)

\* the rows of a board, top to bottom, as this.grid
GridOf(rows) ==
    [r \in Coords(Len(rows)) |-> [c \in Coords(Len(rows)) |-> rows[r + 1][c + 1]]]

ScenarioRows ==
    << <<"C", "A", "T", "E">>,
       <<"O", "R", "S", "T">>,
       <<"D", "O", "G", "S">>,
       <<"N", "E", "W", "S">> >>

ScenarioGrid == GridOf(ScenarioRows)

ScenarioCAT == <<"C", "A", "T">>
ScenarioCATS == <<"C", "A", "T", "S">>
ScenarioDOG == <<"D", "O", "G">>
ScenarioDOGS == <<"D", "O", "G", "S">>
ScenarioROT == <<"R", "O", "T">>
ScenarioNEWS == <<"N", "E", "W", "S">>

ScenarioWords ==
    {ScenarioCAT, ScenarioCATS, ScenarioDOG, ScenarioDOGS, ScenarioROT,
     ScenarioNEWS}

\* the scenario's board, and the boards with one die showing a letter that
\* no word of the dictionary has
ScenarioGrids ==
    {ScenarioGrid} \cup
    { [ScenarioGrid EXCEPT ![cell[1]][cell[2]] = "X"] :
        cell \in Cells(Len(ScenarioRows)) }

ScenarioDictionaries == { Dictionary(ws) : ws \in SUBSET ScenarioWords }

InitScenario ==
    /\ Constructed /\ NoGeneration /\ NoSearch /\ NoScore
    /\ pc = "solve"
    /\ commonWords \in ScenarioDictionaries
    /\ gridSize = Len(ScenarioRows)
    /\ grid \in ScenarioGrids

SpecScenario == InitScenario /\ [][NextSolve]_vars

\* C11 as the specification states it: on the scenario's board with the
\* scenario's dictionary solveGrid finds CAT, DOG, DOGS and NEWS and does not
\* find CATS.
ScenarioWithoutCATS ==
    pc = "solved" /\ grid = ScenarioGrid
                  /\ commonWords = Dictionary(ScenarioWords) =>
        /\ {ScenarioCAT, ScenarioDOG, ScenarioDOGS, ScenarioNEWS}
               \subseteq possibleWords
        /\ ScenarioCATS \notin possibleWords

\* C11, amended: on the scenario's board with the scenario's dictionary
\* solveGrid finds exactly CAT, CATS, DOG, DOGS and NEWS: the S of row 1,
\* column 2 is right below the T of row 0, column 2, so CATS has a legal
\* path; the word it does not find is ROT, since no O touches a T.
ScenarioFindsCATS ==
    pc = "solved" /\ grid = ScenarioGrid
                  /\ commonWords = Dictionary(ScenarioWords) =>
        /\ possibleWords = {ScenarioCAT, ScenarioCATS, ScenarioDOG,
                            ScenarioDOGS, ScenarioNEWS}
        /\ Chebyshev(<<0, 2>>, <<1, 2>>) = 1
        /\ grid[0][2] = "T" /\ grid[1][2] = "S"
        /\ ~Spellable(grid, gridSize, ScenarioROT)

\* C11 witness: the scenario's board solved with the scenario's dictionary,
\* CATS among the words found and ROT not
ScenarioFindsCATSWitness ==
    /\ pc = "solved"
    /\ grid = ScenarioGrid
    /\ commonWords = Dictionary(ScenarioWords)
    /\ ScenarioCATS \in possibleWords
    /\ ScenarioROT \notin possibleWords

-----------------------------------------------------------------------------
(* SpecResolve: solveGrid called twice on the same grid and dictionary, as   *)
(* generateGrid and then endGame call it                                     *)

\* const allPossibleWords = this.solveGrid() of endGame, and the filter on
\* this.foundWords
CallSolveGridAgain ==
    /\ pc = "solved"
    /\ missedWords' = SolveGrid(grid, gridSize, commonWords) \ foundWords
    /\ pc' = "resolved"
    /\ UNCHANGED <<addedByMove,
                   sharedVars, gameDuration, timer, score, foundWords,
                   isGameActive, selectedCells, timerInterval, intervals,
                   isDragging, interactionMoved, currentWordEl, highScores, savedScores,
                   menuVisible, gameOverVisible, countdown, rounds, genVars,
                   scoreVars, searchVars>>

NextResolve == CallSolveGrid \/ CallSolveGridAgain

SpecResolve == InitSolve /\ [][NextResolve]_vars

\* The search of recursivelyFind with the order of the neighbours (offs) and
\* of the roots (roots) as parameters; with NeighborOffsets and the row-major
\* roots it is the search of the code.
RECURSIVE FindOrdered(_, _, _, _, _, _, _, _)
RECURSIVE NeighborsOrdered(_, _, _, _, _, _, _, _, _)

NeighborsOrdered(g, n, cw, offs, r, c, nextPrefix, st, k) ==
    IF k > Len(offs) THEN st
    ELSE CHOOSE out \in
             { NeighborsOrdered(g, n, cw, offs, r, c, nextPrefix, next, k + 1) :
                 next \in { FindOrdered(g, n, cw, offs, r + offs[k][1],
                                        c + offs[k][2], nextPrefix, st) } } : TRUE

FindOrdered(g, n, cw, offs, r, c, currentPrefix, st) ==
    IF r < 0 \/ r >= n \/ c < 0 \/ c >= n THEN st
    ELSE IF st.visited[r][c] THEN st
    ELSE LET nextPrefix == Append(currentPrefix, g[r][c])
         IN  IF ~Potential(cw, nextPrefix) THEN st
             ELSE LET marked == [st EXCEPT !.visited[r][c] = TRUE]
                      added == IF Len(nextPrefix) >= 3 /\ Includes(cw, nextPrefix)
                               THEN [marked EXCEPT !.found = @ \cup {nextPrefix}]
                               ELSE marked
                      after == NeighborsOrdered(g, n, cw, offs, r, c,
                                                nextPrefix, added, 1)
                  IN  [after EXCEPT !.visited[r][c] = FALSE]

RECURSIVE RootsOrdered(_, _, _, _, _, _, _)
RootsOrdered(g, n, cw, offs, roots, st, k) ==
    IF k > Len(roots) THEN st
    ELSE CHOOSE out \in
             { RootsOrdered(g, n, cw, offs, roots, next, k + 1) :
                 next \in { FindOrdered(g, n, cw, offs, roots[k][1],
                                        roots[k][2], <<>>, st) } } : TRUE

Unmarked(n) == [r \in Coords(n) |-> [c \in Coords(n) |-> FALSE]]

SolveOrdered(g, n, cw, offs, roots) ==
    RootsOrdered(g, n, cw, offs, roots, [visited |-> Unmarked(n), found |-> {}], 1)

Reverse(s) == [i \in 1..Len(s) |-> s[Len(s) + 1 - i]]

\* the roots row by row, as the loops of solveGrid visit them
RowMajor(n) == [k \in 1..(n * n) |-> <<(k - 1) \div n, (k - 1) % n>>]
\* the roots column by column
ColumnMajor(n) == [k \in 1..(n * n) |-> <<(k - 1) % n, (k - 1) \div n>>]

\* the neighbours with the diagonal ones first
DiagonalsFirst ==
    << <<-1, -1>>, <<1, 1>>, <<-1, 1>>, <<1, -1>>,
       <<0, 1>>, <<-1, 0>>, <<0, -1>>, <<1, 0>> >>

\* orders of exploration tried: of the neighbours and of the roots of an
\* n x n board
SearchOrders(n) ==
    { <<Reverse(NeighborOffsets), RowMajor(n)>>,
      <<NeighborOffsets, ColumnMajor(n)>>,
      <<DiagonalsFirst, Reverse(RowMajor(n))>>,
      <<Reverse(DiagonalsFirst), Reverse(ColumnMajor(n))>> }

\* C12: solveGrid is deterministic and idempotent.  A second call on the same
\* grid and dictionary returns the same set; the call leaves the grid and the
\* dictionary as they were and every cell unmarked, also after the search
\* from each single root; and the set is the one the search returns under
\* every order of the roots and of the neighbours tried.
SolveGridIdempotent ==
    /\ [](pc = "resolved" =>
            /\ missedWords = possibleWords
            /\ SolveGridState(grid, gridSize, commonWords).visited
                   = Unmarked(gridSize)
            /\ \A cell \in Cells(gridSize) :
                   RecursivelyFind(grid, gridSize, commonWords, cell[1],
                                   cell[2], <<>>,
                                   [visited |-> Unmarked(gridSize),
                                    found |-> {}]).visited
                       = Unmarked(gridSize)
            /\ SolveOrdered(grid, gridSize, commonWords, NeighborOffsets,
                            RowMajor(gridSize))
                   = SolveGridState(grid, gridSize, commonWords)
            /\ \A ord \in SearchOrders(gridSize) :
                   SolveOrdered(grid, gridSize, commonWords, ord[1],
                                ord[2]).found
                       = possibleWords)
    /\ [][CallSolveGrid \/ CallSolveGridAgain =>
              grid' = grid /\ commonWords' = commonWords]_vars

\* C12 witness: a 3x3 board solved twice with the same non-empty result that
\* holds two words of different lengths
SolveGridIdempotentWitness ==
    /\ pc = "resolved"
    /\ gridSize = 3
    /\ missedWords = possibleWords
    /\ <<"T", "A", "T">> \in missedWords
    /\ <<"A", "A", "A", "A", "A">> \in missedWords

-----------------------------------------------------------------------------
(* The claims about the transitions of the selection path, under Spec *)

\* a step in which trySelectCell runs with the cell as its target: a press on
\* a die, or a move over a die during a drag, in an active round
TrySelectRuns(cell) ==
    /\ cell # NoCell
    /\ isGameActive
    /\ \/ HandleInputStart(cell)
       \/ isDragging /\ HandleInputMove(cell)

\* the target is the second-to-last cell of a path of two cells or more
IsBacktrackTarget(sel, cell) == Len(sel) >= 2 /\ cell = sel[Len(sel) - 1]

\* the path without its last cell
AllButLast(sel) == SubSeq(sel, 1, Len(sel) - 1)

\* C13: the backtrack of trySelectCell removes exactly one cell, the last one,
\* and leaves the rest of the path as it was; and trySelectCell shortens the
\* path only then: when the path has two cells or more and the target is the
\* second-to-last one.
BacktrackRemovesLast ==
    [][ \A cell \in PointerTargets :
          TrySelectRuns(cell) =>
            /\ IsBacktrackTarget(selectedCells, cell) =>
                 /\ Len(selectedCells') = Len(selectedCells) - 1
                 /\ selectedCells' = AllButLast(selectedCells)
                 /\ currentWordEl' = WordOf(grid, selectedCells')
            /\ Len(selectedCells') < Len(selectedCells) =>
                 IsBacktrackTarget(selectedCells, cell) ]_vars

\* C13 witness: a drag that moved (a cell was appended or removed by a move)
\* and whose path of the 3x3 board is down to one cell, the word shown being
\* its letter
BacktrackRemovesLastWitness ==
    /\ gridSize = 3
    /\ isGameActive /\ isDragging /\ interactionMoved
    /\ selectedCells = << <<1, 1>> >>
    /\ currentWordEl = WordOf(grid, selectedCells)
    /\ foundWords = {}

\* C14: within a round, from the reset of initGame to the tick that ends the
\* round, the score never decreases from one state to the next, whatever the
\* event: a press, a move, a release, a click on submit or clear, a tick.
ScoreNeverDecreasesInRound ==
    /\ [][isGameActive => score' >= score]_vars
    /\ [][InitGame => score' = 0 /\ isGameActive']_vars

\* C14 witness: a round one tick old in which two words have scored and a
\* drag has a path under way
ScoreNeverDecreasesInRoundWitness ==
    /\ isGameActive
    /\ timer = GameDuration - 1
    /\ score = 2
    /\ isDragging
    /\ Len(selectedCells) >= 2

\* the last cell of a path that has one
LastCell(sel) == sel[Len(sel)]

\* C15: with a path under way, a target that is not the backtrack target and
\* is not adjacent to the last cell, or is the last cell, or is in the path
\* already, leaves the path, and the word shown, as they were.
IgnoredTargetKeepsPath ==
    [][ \A cell \in PointerTargets :
          ( /\ TrySelectRuns(cell)
            /\ Len(selectedCells) >= 1
            /\ ~IsBacktrackTarget(selectedCells, cell)
            /\ \/ Chebyshev(cell, LastCell(selectedCells)) > 1
               \/ cell = LastCell(selectedCells)
               \/ cell \in Range(selectedCells) )
          => UNCHANGED <<selectedCells, currentWordEl>> ]_vars

\* C15 witness: a press that did not move yet on the 3x3 board, the path
\* having three cells, with a die that is not adjacent to the last cell, and
\* a die of the path next to the last cell that is not the backtrack target
IgnoredTargetKeepsPathWitness ==
    /\ gridSize = 3
    /\ isGameActive /\ isDragging /\ ~interactionMoved
    /\ selectedCells = << <<0, 0>>, <<1, 0>>, <<0, 1>> >>
    /\ Chebyshev(<<2, 2>>, LastCell(selectedCells)) > 1
    /\ Chebyshev(<<0, 0>>, LastCell(selectedCells)) = 1
    /\ ~IsBacktrackTarget(selectedCells, <<0, 0>>)

RECURSIVE BacktrackAll(_)
\* the path after as many backtracks as trySelectCell takes: the target is
\* the second-to-last cell, again and again, while there is one
BacktrackAll(sel) ==
    IF Len(sel) >= 2
    THEN BacktrackAll(TrySelectCell(sel, sel[Len(sel) - 1]))
    ELSE sel

\* C16 as the specification states it: from a path under way backtracks lead
\* back to the empty path.
BacktrackReachesIdle ==
    (isGameActive /\ Len(selectedCells) >= 1) =>
        BacktrackAll(selectedCells) = <<>>

\* C16, amended: no backtrack empties the path.  trySelectCell never leaves a
\* path under way empty: a backtrack needs two cells and leaves one or more,
\* and from a path of one cell no target removes it.  The empty path is
\* reached again only by clearSelection (the clear button, every submission
\* of a round) and by resetState (initGame, resetMenu).
BacktrackNeverEmpties ==
    /\ []( Len(selectedCells) >= 1 =>
             /\ Len(BacktrackAll(selectedCells)) = 1
             /\ \A cell \in Cells(gridSize) :
                    Len(TrySelectCell(selectedCells, cell)) >= 1 )
    /\ [][ \A cell \in PointerTargets :
             TrySelectRuns(cell) /\ Len(selectedCells) >= 1
                 => Len(selectedCells') >= 1 ]_vars
    /\ [][ (Len(selectedCells) >= 1 /\ selectedCells' = <<>>)
             => \/ ClearClick
                \/ SubmissionStep /\ isGameActive
                \/ InitGame
                \/ ResetMenu ]_vars

\* C16 witness: on the 2x2 board a drag that moved has a path of one cell
\* left in the last second of the round
BacktrackNeverEmptiesWitness ==
    /\ gridSize = SmallSize
    /\ isGameActive /\ isDragging /\ interactionMoved
    /\ Len(selectedCells) = 1
    /\ BacktrackAll(selectedCells) = selectedCells
    /\ timer = 1

\* C17: every submission processed in an active round, by the submit button or
\* by the release of a drag, accepted or rejected as too short, as a duplicate
\* or as not in the dictionary, leaves the path empty and no word shown.
SubmissionClearsPath ==
    [][ (SubmissionStep /\ isGameActive)
          => selectedCells' = <<>> /\ currentWordEl' = <<>> ]_vars

\* C17 witness: in a round a drag that moved was released, one word has been
\* accepted, and the path is empty
SubmissionClearsPathWitness ==
    /\ isGameActive
    /\ ~isDragging /\ interactionMoved
    /\ Cardinality(foundWords) = 1
    /\ score = 1
    /\ selectedCells = <<>>
    /\ currentWordEl = <<>>

-----------------------------------------------------------------------------
(* The release of a press, under Spec *)

\* the release of the press under way
ReleaseOfPress == HandleInputEnd /\ isDragging

\* the release calls submitWord(true)
AutoSubmits == ReleaseOfPress /\ interactionMoved /\ Len(selectedCells) >= 1

-----------------------------------------------------------------------------
(* SpecSearch: one solveGrid call taken step by step: every call of          *)
(* recursivelyFind and every return is a step.  A call that returns at once  *)
(* (off the board, a marked cell, a prefix of no word) is one step of its    *)
(* caller.  A sequential program takes its next step: weak fairness.         *)

\* the rows of the 3x3 boards searched step by step
SearchRows == {<<"A", "A", "A">>, <<"T", "A", "T">>}

\* every 2x2 board over the alphabet, and the 3x3 boards of those rows
SearchGrids(n) ==
    IF n = 2 THEN SolveGrids(n)
    ELSE { GridOf(<<a, b, c>>) : a \in SearchRows, b \in SearchRows,
                                 c \in SearchRows }

\* solveGrid() up to its loops: found and visited are fresh
InitSearch ==
    /\ Constructed /\ NoGeneration /\ NoScore
    /\ pc = "search"
    /\ commonWords \in SolveDictionaries
    /\ gridSize \in SolveSizes
    /\ grid \in SearchGrids(gridSize)
    /\ root = 0
    /\ visited = Unmarked(gridSize)
    /\ found = {}
    /\ callStack = <<>>

\* mutant of EntersCall: the test of visited[r][c] left out
EntersCallNoVisitedTest(r, c, currentPrefix) ==
    /\ ~(r < 0 \/ r >= gridSize \/ c < 0 \/ c >= gridSize)
    /\ Potential(commonWords, Append(currentPrefix, grid[r][c]))

\* recursivelyFind(r, c, currentPrefix, visited, found) gets past its three
\* returns: the cell is on the board, not marked, and the prefix starts a word
EntersCall(r, c, currentPrefix) ==
    /\ ~(r < 0 \/ r >= gridSize \/ c < 0 \/ c >= gridSize)
    /\ ~visited[r][c]
    /\ Potential(commonWords, Append(currentPrefix, grid[r][c]))

\* the call recursivelyFind(r, c, currentPrefix, visited, found), made with
\* the callers in rest: it returns at once, or it marks its cell, adds its
\* prefix to found if it is a word, and goes on to its neighbours
CallRecursivelyFind(r, c, currentPrefix, rest) ==
    IF EntersCall(r, c, currentPrefix)
    THEN LET nextPrefix == Append(currentPrefix, grid[r][c])
         IN  /\ visited' = [visited EXCEPT ![r][c] = TRUE]
             /\ found' = IF Len(nextPrefix) >= 3
                            /\ Includes(commonWords, nextPrefix)
                         THEN found \cup {nextPrefix}
                         ELSE found
             /\ callStack' = Append(rest, [r |-> r, c |-> c,
                                           nextPrefix |-> nextPrefix,
                                           k |-> 1])
    ELSE /\ UNCHANGED <<visited, found>>
         /\ callStack' = rest

\* the innermost call
Top == callStack[Len(callStack)]

\* the loops of solveGrid call recursivelyFind(r, c, "", visited, found)
SearchRoot ==
    /\ pc = "search"
    /\ callStack = <<>>
    /\ root < gridSize * gridSize
    /\ CallRecursivelyFind(root \div gridSize, root % gridSize, <<>>, <<>>)
    /\ root' = root + 1
    /\ UNCHANGED <<sharedVars, gameVars, genVars, scoreVars, pc>>

\* the loops of the innermost call make the call on its next neighbour
SearchNeighbour ==
    /\ pc = "search"
    /\ callStack # <<>>
    /\ Top.k <= Len(NeighborOffsets)
    /\ CallRecursivelyFind(Top.r + NeighborOffsets[Top.k][1],
                           Top.c + NeighborOffsets[Top.k][2],
                           Top.nextPrefix,
                           [callStack EXCEPT ![Len(callStack)].k = Top.k + 1])
    /\ UNCHANGED <<sharedVars, gameVars, genVars, scoreVars, root, pc>>

\* the innermost call is through its loops: visited[r][c] = false, return
SearchReturn ==
    /\ pc = "search"
    /\ callStack # <<>>
    /\ Top.k > Len(NeighborOffsets)
    /\ visited' = [visited EXCEPT ![Top.r][Top.c] = FALSE]
    /\ callStack' = SubSeq(callStack, 1, Len(callStack) - 1)
    /\ UNCHANGED <<sharedVars, gameVars, genVars, scoreVars, root, found, pc>>

\* return Array.from(found)
SearchEnd ==
    /\ pc = "search"
    /\ callStack = <<>>
    /\ root = gridSize * gridSize
    /\ possibleWords' = found
    /\ pc' = "solved"
    /\ UNCHANGED <<sharedVars, gameVars, scoreVars, searchVars, attempt,
                   bestGrid, maxFound, shuffledDice, bestDice, attemptCounts>>

NextSearch == SearchRoot \/ SearchNeighbour \/ SearchReturn \/ SearchEnd

SpecSearch == InitSearch /\ [][NextSearch]_vars /\ WF_vars(NextSearch)

\* the cells marked in visited
MarkedCells == {cell \in Cells(gridSize) : visited[cell[1]][cell[2]]}

\* the cells of the calls that have not returned
StackCells == {<<callStack[i].r, callStack[i].c>> : i \in 1..Len(callStack)}

\* C19: every call of solveGrid terminates; at every point of the search the
\* marked cells are the cells of the calls that have not returned, one cell
\* each, so their number is the depth of the recursion and is at most
\* size x size; every call that does not return at once marks one cell that
\* was not marked.  The search ends with the set the recursion computes and
\* with no cell marked.
SolveGridTerminates ==
    /\ <>(pc = "solved")
    /\ []( /\ MarkedCells = StackCells
           /\ Cardinality(MarkedCells) = Len(callStack)
           /\ Len(callStack) <= gridSize * gridSize
           /\ root <= gridSize * gridSize )
    /\ [][ Len(callStack') > Len(callStack) =>
             /\ Len(callStack') = Len(callStack) + 1
             /\ LET new == callStack'[Len(callStack')]
                IN  /\ ~visited[new.r][new.c]
                    /\ visited' = [visited EXCEPT ![new.r][new.c] = TRUE] ]_vars
    /\ []( pc = "solved" =>
             /\ possibleWords = SolveGrid(grid, gridSize, commonWords)
             /\ visited = Unmarked(gridSize)
             /\ ~ENABLED NextSearch )

\* C19 witness: on a 2x2 board the search is four calls deep, every cell
\* marked, a word of four letters found
SolveGridTerminatesWitness ==
    /\ pc = "search"
    /\ gridSize = 2
    /\ Len(callStack) = gridSize * gridSize
    /\ Cardinality(MarkedCells) = gridSize * gridSize
    /\ <<"T", "A", "T", "A">> \in found

\* ---------------------------------------------------------------------------
\* The end of a round
\* ---------------------------------------------------------------------------

\* a round has been started and has not ended: its countdown or its play
RoundUnderWay == countdown > 0 \/ isGameActive

\* the callback of a live interval runs in this step
TickRuns == \E id \in intervals : Tick(id)

\* this step ends the round
RoundEnds == isGameActive /\ ~isGameActive'

\* C20: the end of a round is one event.  The timer of a round is set to the
\* round's duration when the round is started from the menu, and after that
\* only a tick changes it, taking one off; the round ends on the
\* tick that brings the timer to 0 and on no other step; once it has ended no
\* interval is live, so no tick can fire, and the timer stays at 0; and every
\* round that has ended has handed exactly one score, its own, to saveScore.
RoundEndsOnce ==
    /\ [](Len(savedScores) + (IF RoundUnderWay THEN 1 ELSE 0) = rounds)
    /\ [](Cardinality(intervals) <= 1)
    /\ [](isGameActive <=> intervals # {})
    /\ [](isGameActive => timer \in 1..GameDuration)
    /\ [](gameOverVisible => timer = 0 /\ ~isGameActive)
    /\ [][InitGame => timer = GameDuration]_vars
    /\ [][timer' # timer /\ menuVisible
             => ~RoundUnderWay /\ timer' = GameDuration]_vars
    /\ [][timer' # timer /\ ~menuVisible
             => isGameActive /\ timer' = timer - 1 /\ TickRuns]_vars
    /\ [][timer' # timer /\ ~menuVisible => (RoundEnds <=> timer' = 0)]_vars
    /\ [][RoundEnds => /\ timer' = 0
                       /\ intervals' = {}
                       /\ savedScores' = Append(savedScores, score)
                       /\ highScores' = SaveScore(highScores, score)
                       /\ TickRuns]_vars
    /\ [][savedScores' # savedScores \/ highScores' # highScores
             => RoundEnds]_vars

\* the second round has ended after the first: each handed its score, the
\* second a positive one, and nothing is left to tick
RoundEndsOnceWitness ==
    /\ rounds = 2
    /\ Len(savedScores) = 2
    /\ savedScores[2] = score
    /\ score > 0
    /\ gameOverVisible
    /\ timer = 0
    /\ intervals = {}

\* ---------------------------------------------------------------------------
\* Input outside a round
\* ---------------------------------------------------------------------------

\* a press, a move, a release or a click on the submit button runs in this step
InputEventRuns ==
    \/ \E cell \in PointerTargets : HandleInputStart(cell)
    \/ \E cell \in PointerTargets : HandleInputMove(cell)
    \/ HandleInputEnd
    \/ SubmitClick

\* this step is a submission of an active round that accepts its candidate
AcceptedSubmission ==
    /\ isGameActive
    /\ SubmissionStep
    /\ Len(CandidateWord) >= 3
    /\ CandidateWord \notin foundWords
    /\ Includes(commonWords, CandidateWord)
    /\ foundWords' = foundWords \cup {CandidateWord}
    /\ score' = score + GetScore(CandidateWord)

\* this step is the resetState() of initGame or of resetMenu
ResetRuns ==
    /\ InitGame \/ ResetMenu
    /\ score' = 0
    /\ foundWords' = {}

\* C21: while no round is active (before the countdown has finished and after
\* endGame) a press, a move, a release and a click on submit leave the score,
\* the found words, the path and the word shown as they are; and the score
\* and the found words change only in an accepted submission of an active
\* round or in the reset at the start of a round or at the return to the menu.
InactiveEventsChangeNothing ==
    /\ [][~isGameActive /\ InputEventRuns
             => UNCHANGED <<score, foundWords, selectedCells,
                            currentWordEl>>]_vars
    /\ [][score' # score \/ foundWords' # foundWords
             => AcceptedSubmission \/ ResetRuns]_vars

\* the round is over with a word found and a path left on the board, and a
\* drag that had moved was released after the end: the release did not submit
InactiveEventsChangeNothingWitness ==
    /\ ~isGameActive
    /\ gameOverVisible
    /\ ~isDragging
    /\ interactionMoved
    /\ selectedCells # <<>>
    /\ foundWords # {}
    /\ score > 0

\* ---------------------------------------------------------------------------
\* SpecAgree: the rounds of the game with dictionary.js loaded or not
\* ---------------------------------------------------------------------------

\* the page with dictionary.js in it, and the page without: the global
\* commonWords is then no binding at all, the case submitWord and
\* recursivelyFind test with typeof
AgreeDictionaries == GameDictionaries \cup {Undefined}

InitAgree ==
    /\ Constructed /\ NoGeneration /\ NoSearch /\ NoScore
    /\ pc = "game"
    /\ commonWords \in AgreeDictionaries
    /\ gridSize = 0
    /\ grid = <<>>

\* the steps of Spec, with one round played, on the small board
NextAgree ==
    \/ StartGame(SmallSize) /\ rounds = 0
    \/ CountdownStep
    \/ InitGame
    \/ \E id \in intervals : Tick(id)
    \/ \E cell \in PointerTargets : HandleInputStart(cell)
    \/ \E cell \in PointerTargets : HandleInputMove(cell)
    \/ HandleInputEnd
    \/ SubmitClick
    \/ ClearClick
    \/ ResetMenu

SpecAgree == InitAgree /\ [][NextAgree]_vars

\* solveGrid() on the grid of the round
SolvedWords == SolveGrid(grid, gridSize, commonWords)

\* C22: the tracker, the submission flow and the solver agree.  Every word in
\* foundWords is in the result of solveGrid for the grid of the round; and
\* once the round has ended the missed words are the solved words not found,
\* so that missed and found words together are exactly the solved words.
FoundWordsAreSolved ==
    /\ foundWords # {} => foundWords \subseteq SolvedWords
    /\ gameOverVisible =>
           /\ missedWords \cap foundWords = {}
           /\ missedWords \cup foundWords = SolvedWords

\* ---------------------------------------------------------------------------
\* SpecScores: saveScore over many finished rounds
\* ---------------------------------------------------------------------------

\* a page just loaded: loadScores() has found no stored list
InitScores ==
    /\ Constructed /\ NoGeneration /\ NoSearch /\ NoScore
    /\ commonWords = Undefined
    /\ gridSize = 0
    /\ grid = <<>>
    /\ pc = "scores"

\* this.saveScore(this.score) of endGame, for a round that ended with score sc
CallSaveScore(sc) ==
    /\ pc = "scores"
    /\ Len(savedScores) < MaxSaves
    /\ highScores' = SaveScore(highScores, sc)
    /\ savedScores' = Append(savedScores, sc)
    /\ UNCHANGED <<sharedVars, gameDuration, timer, score, foundWords,
                   isGameActive, selectedCells, timerInterval, isDragging,
                   interactionMoved, currentWordEl, menuVisible,
                   gameOverVisible, countdown, missedWords, intervals, rounds,
                   addedByMove, genVars, scoreVars, searchVars, pc>>

NextScores == \E sc \in 0..MaxSavedScore : CallSaveScore(sc)

SpecScores == InitScores /\ [][NextScores]_vars

\* how often v occurs in the list
Count(list, v) == Cardinality({ i \in 1..Len(list) : list[i] = v })

\* C23: after any sequence of finished rounds, from an empty list, the stored
\* list has at most 10 entries, is in descending order, holds no 0, and holds
\* the 10 highest scores other than 0 saved so far, all of them when they are
\* fewer than 10: every entry is a saved score, no oftener than it was saved,
\* and a saved score that is not in the list (or less often) is no higher than
\* any of the 10 entries.
HighScoresTopTen ==
    /\ Len(highScores) <= 10
    /\ \A i \in 1..(Len(highScores) - 1) : highScores[i] >= highScores[i + 1]
    /\ \A i \in 1..Len(highScores) : highScores[i] # 0
    /\ \A v \in 1..MaxSavedScore :
           /\ Count(highScores, v) <= Count(savedScores, v)
           /\ Count(highScores, v) < Count(savedScores, v) =>
                  /\ Len(highScores) = 10
                  /\ \A i \in 1..10 : highScores[i] >= v

\* more than ten scores other than 0 were saved, and a 0: the last one, the
\* only 2, came to a full list of 1s, took the first place and put a 1 out
HighScoresTopTenWitness ==
    /\ Len(savedScores) > TopScores
    /\ Count(savedScores, 0) = 1
    /\ Count(savedScores, 2) = 1
    /\ savedScores[Len(savedScores)] = 2
    /\ Len(highScores) = TopScores
    /\ highScores[1] = 2
    /\ highScores[TopScores] = 1
    /\ Count(highScores, 1) < Count(savedScores, 1)

=============================================================================
